---- MODULE Spec2Model ----
(***************************************************************************)
(* Model of carex_app.py: the Collection Harvester (scrape_variants) and   *)
(* the Stock Checker (scrape_search_results, extract_first_product_info).  *)
(*                                                                         *)
(* Python values: a str is a TLA+ string, a dict is a function whose       *)
(* domain is its key set, a list is a sequence.  None and NaN are two      *)
(* reserved strings no field of the modelled data takes.  Identifiers are  *)
(* kept as their decimal text, which is what the f-string at line 69       *)
(* writes.                                                                 *)
(***************************************************************************)
EXTENDS Integers, Sequences, FiniteSets, TLC

VARIABLES
    catalog,    \* the storefront: the collection pages the server holds
    rawFile,    \* carex_variants_raw.xlsx
    rawWrites,  \* number of times carex_variants_raw.xlsx was written
    hpc,        \* scrape_variants: "idle", "loop", "done", "crashed"
    page,       \* scrape_variants: page
    fetches,    \* the page numbers requested with requests.get, in order
    all_rows,   \* scrape_variants: all_rows
    stop,       \* which break left the while loop: "none", "http_error", "empty"
    hsleeps,    \* seconds slept by scrape_variants
    hmsgs,      \* st.error / st.success messages of scrape_variants
    cpc,        \* scrape_search_results: "idle", "failed", "loop", "done", "aborted"
    reads,      \* number of pd.read_excel calls
    df_input,   \* scrape_search_results: df_input, with its search_url column
    driver,     \* the browser session: "none", "open", "quit"
    acquired,   \* number of init_driver calls
    idx,        \* rows of df_input the for loop has gone through
    attempt,    \* extract_first_product_info: attempt
    navs,       \* driver.get calls of the current (or last finished) probe
    sleeps,     \* seconds slept by the current (or last finished) probe
    results,    \* scrape_search_results: results
    checkedFile,   \* carex_variants_checked.xlsx
    checkedWrites, \* number of times carex_variants_checked.xlsx was written
    cmsgs       \* st.error / st.success messages of scrape_search_results

hvars == <<catalog, rawFile, rawWrites, hpc, page, fetches, all_rows, stop,
           hsleeps, hmsgs>>

cvars == <<cpc, reads, df_input, driver, acquired, idx, attempt, navs, sleeps,
           results, checkedFile, checkedWrites, cmsgs>>

vars == <<hvars, cvars>>

----------------------------------------------------------------------------
(* Bounds *)

MaxPages == 2
MaxRows == 2

----------------------------------------------------------------------------
(* Python values *)

None == "<None>"
NaN == "<NaN>"

\* d[k] = v on a dict: the key is added, or its value overwritten
Put(d, k, v) == [x \in DOMAIN d \cup {k} |-> IF x = k THEN v ELSE d[x]]

\* d.get(k, default)
Get(d, k, default) == IF k \in DOMAIN d THEN d[k] ELSE default

\* truthiness of an optional str
Truthy(s) == s # None /\ s # ""

RECURSIVE Flat(_)
\* concatenation of a sequence of sequences
Flat(ss) == IF ss = <<>> THEN <<>> ELSE Head(ss) \o Flat(Tail(ss))

----------------------------------------------------------------------------
(* The storefront's data *)

VarA1 == [id |-> "1011", name |-> "Widget A - Small", sku |-> "ABC-1",
          price |-> 1999, public_title |-> "Small"]
VarA2 == [id |-> "1012", name |-> "Widget A - Large", sku |-> "ABC-2",
          price |-> 2450, public_title |-> "Large"]
VarB1 == [id |-> "1021", name |-> "Bath Seat", sku |-> "BS-1",
          price |-> 5005, public_title |-> "Default"]
VarC1 == [id |-> "1031", name |-> "Bed Rail", sku |-> "BR-1",
          price |-> 3500, public_title |-> "Default", url |-> "/variants/1031"]
VarE1 == [id |-> "1051", name |-> "Cane", sku |-> "CN-1"]

ProdA == [id |-> "101", vendor |-> "Carex", variants |-> <<VarA1, VarA2>>]
ProdB == [id |-> "102", vendor |-> "Carex", variants |-> <<VarB1>>]
ProdC == [id |-> "103", url |-> "/products/own-c", variants |-> <<VarC1>>]
ProdD == [id |-> "104", vendor |-> "Carex"]
ProdE == [id |-> "105", variants |-> <<VarE1>>]

UrlA == "https://carex.com/products/widget-a"
UrlB == "https://carex.com/products/bath-seat"
UrlC == "https://carex.com/products/bed-rail"
UrlX == "https://carex.com/products/extra"

\* A response: its status code, the "var meta = {...}" blob of the HTML
\* (<<>> when the pattern does not match) and the prefetch link hrefs.
PageTwo == [status_code |-> 200, meta |-> <<[products |-> <<ProdA, ProdB>>]>>,
            links |-> <<UrlA, UrlB>>]
PageShort == [status_code |-> 200, meta |-> <<[products |-> <<ProdC, ProdB>>]>>,
              links |-> <<UrlC>>]
PageExtra == [status_code |-> 200, meta |-> <<[products |-> <<ProdB>>]>>,
              links |-> <<UrlB, UrlX>>]
PageBare == [status_code |-> 200, meta |-> <<[products |-> <<ProdD, ProdE>>]>>,
             links |-> <<>>]
PageEmpty == [status_code |-> 200, meta |-> <<>>, links |-> <<>>]
PageNoProducts == [status_code |-> 200, meta |-> <<[page |-> "collection"]>>,
                   links |-> <<>>]
PageError == [status_code |-> 500, meta |-> <<>>, links |-> <<>>]

Pages == {PageTwo, PageShort, PageExtra, PageBare, PageEmpty, PageNoProducts,
          PageError}

Catalogs == UNION {[1..n -> Pages] : n \in 0..MaxPages}

\* requests.get(url): past the last page of the catalog the storefront
\* answers with a listing that holds no product
requests_get(n) == IF n <= Len(catalog) THEN catalog[n] ELSE PageEmpty

----------------------------------------------------------------------------
(* Helper functions of the Harvester *)

\* extract_variants_from_script(html)
extract_variants_from_script(html) ==
    IF html.meta = <<>> THEN <<>> ELSE Get(html.meta[1], "products", <<>>)

\* extract_product_urls_from_collection_page(html)
extract_product_urls_from_collection_page(html) == html.links

\* flatten_product_variant(product, variant, product_url): the dict is filled
\* in the order of the assignments, a later one overwriting an equal key
flatten_product_variant(product, variant, product_url) ==
    LET pkeys == DOMAIN product \ {"variants"}
        fromProduct == [key \in {"product_" \o k : k \in pkeys} |->
                          product[CHOOSE k \in pkeys : "product_" \o k = key]]
        vkeys == DOMAIN variant
        vcols == {"variant_" \o k : k \in vkeys}
        fromVariant == [key \in DOMAIN fromProduct \cup vcols |->
                          IF key \in vcols
                          THEN variant[CHOOSE k \in vkeys : "variant_" \o k = key]
                          ELSE fromProduct[key]]
        withUrl == Put(fromVariant, "product_url", product_url)
    IN  Put(withUrl, "variant_url",
            IF Truthy(product_url)
            THEN product_url \o "?variant=" \o Get(variant, "id", "None")
            ELSE None)

\* line 97 with the index clamped to the last URL instead of yielding None
PairedUrl_clamped(product_urls, i) ==
    IF product_urls = <<>> THEN None
    ELSE IF i < Len(product_urls) THEN product_urls[i + 1]
    ELSE product_urls[Len(product_urls)]

\* line 97: product_urls[i] if i < len(product_urls) else None  (i from 0)
PairedUrl(product_urls, i) ==
    IF i < Len(product_urls) THEN product_urls[i + 1] ELSE None

\* lines 96-101 keeping only the first variant of each product
FlattenCalls_first_variant(products, product_urls) ==
    Flat([n \in 1..Len(products) |->
            LET variants == Get(products[n], "variants", <<>>)
            IN  [j \in 1..(IF variants = <<>> THEN 0 ELSE 1) |->
                    [product |-> products[n], variant |-> variants[j],
                     product_url |-> PairedUrl(product_urls, n - 1)]]])

\* lines 96-101: the arguments of the flatten_product_variant calls of one
\* page, in the order of the two nested loops
FlattenCalls(products, product_urls) ==
    Flat([n \in 1..Len(products) |->
            LET variants == Get(products[n], "variants", <<>>)
            IN  [j \in 1..Len(variants) |->
                    [product |-> products[n], variant |-> variants[j],
                     product_url |-> PairedUrl(product_urls, n - 1)]]])

\* the rows one page appends to all_rows
PageRows(html) ==
    LET calls == FlattenCalls(extract_variants_from_script(html),
                              extract_product_urls_from_collection_page(html))
    IN  [c \in 1..Len(calls) |->
            flatten_product_variant(calls[c].product, calls[c].variant,
                                    calls[c].product_url)]

----------------------------------------------------------------------------
(* The write step of the Harvester, lines 107-121 *)

keep_columns ==
    <<"variant_name", "variant_sku", "variant_price_usd", "variant_public_title">>

Range(s) == {s[i] : i \in DOMAIN s}

\* pd.DataFrame(all_rows).columns, with the column line 109 adds
DfColumns(rows) ==
    LET cols == UNION {DOMAIN rows[i] : i \in DOMAIN rows}
    IN  cols \cup (IF "variant_price" \in cols THEN {"variant_price_usd"} ELSE {})

\* df["variant_price"] / 100: true division, kept as <<units, hundredths>>
PriceUsd(minor) == <<minor \div 100, minor % 100>>

\* df[keep_columns] raises KeyError when a kept column is not in the frame
KeepRaises(rows) == ~(Range(keep_columns) \subseteq DfColumns(rows))

\* df[keep_columns]: a cell a row has no value for is NaN
KeptTable(rows) ==
    [i \in DOMAIN rows |->
        [c \in Range(keep_columns) |->
            IF c = "variant_price_usd"
            THEN IF "variant_price" \in DOMAIN rows[i]
                 THEN PriceUsd(rows[i]["variant_price"]) ELSE NaN
            ELSE Get(rows[i], c, NaN)]]

Msg(kind, text) == [kind |-> kind, text |-> text]

\* lines 107-121, reached by either break: the file is written, or the
\* column selection raises and the function is left without writing
WriteStep(rows, msgs) ==
    IF KeepRaises(rows)
    THEN /\ hpc' = "crashed"
         /\ hmsgs' = msgs
         /\ UNCHANGED <<rawFile, rawWrites>>
    ELSE /\ hpc' = "done"
         /\ rawFile' = [exists |-> TRUE, rows |-> KeptTable(rows)]
         /\ rawWrites' = rawWrites + 1
         /\ hmsgs' = Append(msgs, Msg("success", "Done scraping variants"))

----------------------------------------------------------------------------
(* scrape_variants *)

\* lines 76-79
HarvestStart ==
    /\ hpc = "idle"
    /\ hpc' = "loop"
    /\ all_rows' = <<>>
    /\ page' = 1
    /\ UNCHANGED <<catalog, rawFile, rawWrites, fetches, stop, hsleeps, hmsgs>>
    /\ UNCHANGED cvars

\* lines 82-87, then 107-121: a non-200 status breaks out of the loop
FetchFails ==
    /\ hpc = "loop"
    /\ requests_get(page).status_code # 200
    /\ fetches' = Append(fetches, page)
    /\ stop' = "http_error"
    /\ WriteStep(all_rows, Append(hmsgs, Msg("error", "Failed to load page")))
    /\ UNCHANGED <<catalog, page, all_rows, hsleeps>>
    /\ UNCHANGED cvars

\* lines 82-92, then 107-121: a page without products breaks out of the loop
FetchEmpty ==
    /\ hpc = "loop"
    /\ requests_get(page).status_code = 200
    /\ extract_variants_from_script(requests_get(page)) = <<>>
    /\ fetches' = Append(fetches, page)
    /\ stop' = "empty"
    /\ WriteStep(all_rows, Append(hmsgs, Msg("success", "No more products found")))
    /\ UNCHANGED <<catalog, page, all_rows, hsleeps>>
    /\ UNCHANGED cvars

\* lines 82-105: a page with products is flattened into all_rows
FetchProducts ==
    /\ hpc = "loop"
    /\ requests_get(page).status_code = 200
    /\ extract_variants_from_script(requests_get(page)) # <<>>
    /\ fetches' = Append(fetches, page)
    /\ all_rows' = all_rows \o PageRows(requests_get(page))
    /\ page' = page + 1
    /\ hsleeps' = hsleeps + 1
    /\ UNCHANGED <<catalog, rawFile, rawWrites, hpc, stop, hmsgs>>
    /\ UNCHANGED cvars

\* a file left by an earlier run of the Harvester
PriorRaw == [exists |-> TRUE, rows |-> KeptTable(<<flatten_product_variant(ProdB, VarB1, UrlB)>>)]
NoRaw == [exists |-> FALSE, rows |-> <<>>]

\* scrape_variants not started
HarvestIdle ==
    /\ rawWrites = 0
    /\ hpc = "idle"
    /\ page = 0
    /\ fetches = <<>>
    /\ all_rows = <<>>
    /\ stop = "none"
    /\ hsleeps = 0
    /\ hmsgs = <<>>

\* scrape_search_results not started
CheckerIdle ==
    /\ cpc = "idle"
    /\ reads = 0
    /\ df_input = <<>>
    /\ driver = "none"
    /\ acquired = 0
    /\ idx = 0
    /\ attempt = 0
    /\ navs = 0
    /\ sleeps = 0
    /\ results = <<>>
    /\ checkedFile = [exists |-> FALSE, rows |-> <<>>]
    /\ checkedWrites = 0
    /\ cmsgs = <<>>

HarvestInit ==
    /\ catalog \in Catalogs
    /\ rawFile \in {NoRaw, PriorRaw}
    /\ HarvestIdle
    /\ CheckerIdle

HarvestNext == HarvestStart \/ FetchFails \/ FetchEmpty \/ FetchProducts

HarvestSpec == HarvestInit /\ [][HarvestNext]_vars

----------------------------------------------------------------------------
(* Properties of the Harvester *)

RECURSIVE SumTo(_, _)
SumTo(f, n) == IF n <= 0 THEN 0 ELSE f[n] + SumTo(f, n - 1)

\* the catalog read directly: products of page q, variants of its n-th product
ProductsOn(q) == catalog[q].meta[1].products
VariantsOf(q, n) ==
    IF "variants" \in DOMAIN ProductsOn(q)[n] THEN ProductsOn(q)[n].variants ELSE <<>>
VariantCount(q) ==
    SumTo([n \in 1..Len(ProductsOn(q)) |-> Len(VariantsOf(q, n))], Len(ProductsOn(q)))

\* a page that ends the pagination: a non-success status or no product
StopsAt(q) ==
    \/ q > Len(catalog)
    \/ catalog[q].status_code # 200
    \/ catalog[q].meta = <<>>
    \/ "products" \notin DOMAIN catalog[q].meta[1]
    \/ catalog[q].meta[1].products = <<>>

\* the pages whose rows were collected, and the place in all_rows of the
\* j-th variant of the n-th product of page q
CollectedPages == 1..(page - 1)
RowIndex(q, n, j) ==
    SumTo([r \in 1..(q - 1) |-> VariantCount(r)], q - 1)
    + SumTo([m \in 1..(n - 1) |-> Len(VariantsOf(q, m))], n - 1) + j
Positions ==
    UNION {UNION {{<<q, n, j>> : j \in 1..Len(VariantsOf(q, n))} :
                    n \in 1..Len(ProductsOn(q))} : q \in CollectedPages}

HarvestEnded == hpc \in {"done", "crashed"}

\* C6: pages are fetched as 1, 2, 3, ... once each; the loop ends at the first
\* page N with a non-success status or no product, after exactly N fetches;
\* all_rows holds one row per variant of the pages before N, in page, product
\* and variant order.
C6_PaginationAndRows ==
    /\ fetches = [i \in 1..Len(fetches) |-> i]
    /\ hpc = "loop" => Len(fetches) = page - 1
    /\ HarvestEnded => Len(fetches) = page /\ StopsAt(page)
    /\ \A q \in CollectedPages : ~StopsAt(q)
    /\ Len(all_rows) = SumTo([q \in CollectedPages |-> VariantCount(q)], page - 1)
    /\ \A pos \in Positions :
          all_rows[RowIndex(pos[1], pos[2], pos[3])]["variant_id"]
             = VariantsOf(pos[1], pos[2])[pos[3]].id

\* the scenario of the spec: 2 + 1 variants on page 1, page 2 empty
C6_Witness ==
    /\ catalog = <<PageTwo, PageEmpty>>
    /\ HarvestEnded
    /\ fetches = <<1, 2>>
    /\ Len(all_rows) = 3

\* C8: product i of a page gets link i when the page has that many links and
\* None otherwise, and then its rows have variant_url None; products past
\* the links still produce their rows, and links past the products are unused.
C8_PositionalPairing ==
    \A pos \in Positions :
       LET links == catalog[pos[1]].links
           k == RowIndex(pos[1], pos[2], pos[3])
       IN  /\ k <= Len(all_rows)
           /\ pos[2] <= Len(links) => all_rows[k]["product_url"] = links[pos[2]]
           /\ pos[2] > Len(links) => /\ all_rows[k]["product_url"] = None
                                     /\ all_rows[k]["variant_url"] = None

\* a page with fewer links than products and one with more were both collected
C8_Witness ==
    /\ catalog = <<PageShort, PageExtra>>
    /\ page = 3
    /\ Len(all_rows) = 3
    /\ all_rows[1]["product_url"] = UrlC
    /\ all_rows[2]["product_url"] = None
    /\ all_rows[2]["variant_url"] = None
    /\ all_rows[3]["product_url"] = UrlB

\* C7: every product field other than variants is in the row under
\* "product_" + name, every variant field under "variant_" + name, each with
\* the value it has in the source.
C7_NoFieldLost ==
    \A pos \in Positions :
       LET row == all_rows[RowIndex(pos[1], pos[2], pos[3])]
           product == ProductsOn(pos[1])[pos[2]]
           variant == VariantsOf(pos[1], pos[2])[pos[3]]
       IN  /\ \A f \in DOMAIN product \ {"variants"} :
                 /\ ("product_" \o f) \in DOMAIN row
                 /\ row["product_" \o f] = product[f]
           /\ \A f \in DOMAIN variant :
                 /\ ("variant_" \o f) \in DOMAIN row
                 /\ row["variant_" \o f] = variant[f]

\* C3: after a non-success status the harvest writes no file.
C3_NoPartialOutput == stop = "http_error" => rawWrites = 0

\* C10: after the empty-page signal the harvest completes and writes the
\* file with its four columns.
C10_EmptyPageWrites ==
    stop = "empty" =>
       /\ hpc = "done"
       /\ rawWrites = 1
       /\ rawFile.exists
       /\ \A i \in DOMAIN rawFile.rows : DOMAIN rawFile.rows[i] = Range(keep_columns)

----------------------------------------------------------------------------
(* The Stock Checker's input and the search widget *)

\* rows of a carex_variants_raw.xlsx as pd.read_excel returns them: an empty
\* cell is NaN
RowFull == [variant_name |-> "Widget A", variant_sku |-> "ABC-1",
            variant_price_usd |-> <<19, 99>>, variant_public_title |-> "Small"]
RowNoSku == [variant_name |-> "Widget A", variant_sku |-> NaN,
             variant_price_usd |-> <<19, 99>>, variant_public_title |-> "Small"]
RowNoQuery == [variant_name |-> NaN, variant_sku |-> NaN,
               variant_price_usd |-> <<19, 99>>, variant_public_title |-> "Small"]

RowKinds == {RowFull, RowNoSku, RowNoQuery}

\* the files the Harvester can have written hold at least one row (line 117
\* raises on a frame without rows)
RawFiles ==
    {[exists |-> TRUE, rows |-> r] : r \in UNION {[1..n -> RowKinds] : n \in 1..MaxRows}}

\* the class attribute of the first result element, as its class names
ClassAttrs ==
    { <<"snize-product", "snize-product-in-stock">>,
      <<"snize-product", "snize-product-out-of-stock">>,
      <<"snize-product">>,
      <<"snize-product", "snize-product-in-stock", "snize-product-out-of-stock">> }

\* the "snize-view-link" element of the result: absent, or its href
ViewLinks ==
    { [found |-> FALSE, href |-> None],
      [found |-> TRUE, href |-> None],
      [found |-> TRUE, href |-> "/products/widget-a"],
      [found |-> TRUE, href |-> "https://carex.com/products/widget-a"],
      [found |-> TRUE, href |-> "/collections/all"] }

----------------------------------------------------------------------------
(* Helper functions of the Stock Checker *)

\* pd.notna(x)
notna(x) == x # NaN /\ x # None

\* urllib.parse.quote on the queries of RowKinds: the space is escaped
quote(s) ==
    CASE s = "ABC-1" -> "ABC-1"
      [] s = "Widget A" -> "Widget%20A"

base_search_url == "https://carex.com/pages/search-results-page?q="

\* make_search_url(row), lines 177-179
make_search_url(row) ==
    LET query == IF notna(row["variant_sku"]) THEN row["variant_sku"]
                 ELSE row["variant_name"]
    IN  IF notna(query) THEN base_search_url \o quote(query) ELSE None

\* "marker in classes" for the class names of ClassAttrs, none of which
\* contains a marker without being it
HasMarker(classes, marker) == \E i \in DOMAIN classes : classes[i] = marker

\* lines 144-150
StockStatus(classes) ==
    IF HasMarker(classes, "snize-product-in-stock") THEN "In Stock"
    ELSE IF HasMarker(classes, "snize-product-out-of-stock") THEN "Out of Stock"
    ELSE "Unknown"

\* href.startswith("/products/") on the hrefs of ViewLinks
StartsWithProducts(href) == href = "/products/widget-a"

\* lines 152-160: find_element raising leaves product_url None
ProductPageUrl(link) ==
    IF ~link.found THEN None
    ELSE IF Truthy(link.href) /\ StartsWithProducts(link.href)
         THEN "https://carex.com" \o link.href
         ELSE link.href

\* line 134 with the retry budget one short
retries_one_short == 5 - 1

\* line 134: retries=5
retries == 5

----------------------------------------------------------------------------
(* scrape_search_results and extract_first_product_info *)

\* lines 170-172 with the browser set up before the input file is looked for
CheckerMissing_after_setup ==
    /\ cpc = "idle"
    /\ ~rawFile.exists
    /\ cpc' = "failed"
    /\ driver' = "open"
    /\ acquired' = acquired + 1
    /\ cmsgs' = Append(cmsgs, Msg("error", "You must run 'Scrape Variants' first"))
    /\ UNCHANGED <<reads, df_input, idx, attempt, navs, sleeps, results,
                   checkedFile, checkedWrites>>
    /\ UNCHANGED hvars

\* lines 169-172: the input file does not exist
CheckerMissing ==
    /\ cpc = "idle"
    /\ ~rawFile.exists
    /\ cpc' = "failed"
    /\ cmsgs' = Append(cmsgs, Msg("error", "You must run 'Scrape Variants' first"))
    /\ UNCHANGED <<reads, df_input, driver, acquired, idx, attempt, navs, sleeps,
                   results, checkedFile, checkedWrites>>
    /\ UNCHANGED hvars

\* lines 169-186: the file is read, search_url is added, the browser is started
CheckerStart ==
    /\ cpc = "idle"
    /\ rawFile.exists
    /\ reads' = reads + 1
    /\ df_input' = [i \in DOMAIN rawFile.rows |->
                      Put(rawFile.rows[i], "search_url", make_search_url(rawFile.rows[i]))]
    /\ driver' = "open"
    /\ acquired' = acquired + 1
    /\ results' = <<>>
    /\ idx' = 0
    /\ attempt' = 0
    /\ cpc' = "loop"
    /\ UNCHANGED <<navs, sleeps, checkedFile, checkedWrites, cmsgs>>
    /\ UNCHANGED hvars

\* lines 191-194 dropping the row of an exhausted probe
FinishRow_drops_failed(product_url, stock_status) ==
    /\ results' = IF stock_status = "Retry Failed" THEN results
                  ELSE Append(results,
                              Put(Put(df_input[idx + 1], "product_page_url", product_url),
                                  "stock_status", stock_status))
    /\ idx' = idx + 1
    /\ attempt' = 0
    /\ IF idx' = Len(df_input)
       THEN /\ driver' = "quit"
            /\ checkedFile' = [exists |-> TRUE, rows |-> results']
            /\ checkedWrites' = checkedWrites + 1
            /\ cmsgs' = Append(cmsgs, Msg("success", "Stock status checked"))
            /\ cpc' = "done"
       ELSE UNCHANGED <<driver, checkedFile, checkedWrites, cmsgs, cpc>>

\* lines 191-195 for the row a probe returned for, and lines 197-202 after
\* the last row: the session is quit and the checked file written
FinishRow(product_url, stock_status) ==
    /\ results' = Append(results,
                         Put(Put(df_input[idx + 1], "product_page_url", product_url),
                             "stock_status", stock_status))
    /\ idx' = idx + 1
    /\ attempt' = 0
    /\ IF idx' = Len(df_input)
       THEN /\ driver' = "quit"
            /\ checkedFile' = [exists |-> TRUE, rows |-> results']
            /\ checkedWrites' = checkedWrites + 1
            /\ cmsgs' = Append(cmsgs, Msg("success", "Stock status checked"))
            /\ cpc' = "done"
       ELSE UNCHANGED <<driver, checkedFile, checkedWrites, cmsgs, cpc>>

\* the counters of the probe in progress: a probe starts with attempt = 0
NavsSoFar == IF attempt = 0 THEN 0 ELSE navs
SleepsSoFar == IF attempt = 0 THEN 0 ELSE sleeps

\* lines 135-143, 163-165: navigation, wait or lookup raises an Exception;
\* the handler sleeps; after the last attempt the probe returns Retry Failed
AttemptRaises ==
    /\ cpc = "loop"
    /\ navs' = NavsSoFar + 1
    /\ sleeps' = SleepsSoFar + 1
    /\ IF attempt + 1 < retries
       THEN /\ attempt' = attempt + 1
            /\ UNCHANGED <<results, idx, driver, checkedFile, checkedWrites, cmsgs, cpc>>
       ELSE FinishRow(None, "Retry Failed")
    /\ UNCHANGED <<reads, df_input, acquired>>
    /\ UNCHANGED hvars

\* lines 135-162: the first result element appears; driver.get of a row
\* without search_url (None) cannot load a page
AttemptFinds ==
    /\ cpc = "loop"
    /\ df_input[idx + 1]["search_url"] # None
    /\ \E classes \in ClassAttrs, link \in ViewLinks :
          FinishRow(ProductPageUrl(link), StockStatus(classes))
    /\ navs' = NavsSoFar + 1
    /\ sleeps' = SleepsSoFar
    /\ UNCHANGED <<reads, df_input, acquired>>
    /\ UNCHANGED hvars

\* lines 188-195: an error the handler at line 163 does not catch (a
\* KeyboardInterrupt, the script runner stopping the script) leaves the
\* function from inside the loop; no finally clause runs driver.quit()
UnexpectedError ==
    /\ cpc = "loop"
    /\ cpc' = "aborted"
    /\ UNCHANGED <<reads, df_input, driver, acquired, idx, attempt, navs, sleeps,
                   results, checkedFile, checkedWrites, cmsgs>>
    /\ UNCHANGED hvars

CheckerInit ==
    /\ catalog = <<>>
    /\ rawFile \in {NoRaw} \cup RawFiles
    /\ HarvestIdle
    /\ CheckerIdle

CheckerNext ==
    \/ CheckerMissing
    \/ CheckerStart
    \/ AttemptRaises
    \/ AttemptFinds
    \/ UnexpectedError

CheckerSpec == CheckerInit /\ [][CheckerNext]_vars

\* the for loop and the retry loop run on until they return
CheckerFairSpec == CheckerSpec /\ WF_vars(AttemptRaises \/ AttemptFinds)

----------------------------------------------------------------------------
(* Properties of the Stock Checker *)

StockStatuses == {"In Stock", "Out of Stock", "Unknown", "Retry Failed"}

CheckerEnded == cpc \in {"done", "aborted"}

\* a probe has returned and the next one has not begun its first attempt
ProbeReturned == idx > 0 /\ attempt = 0 /\ Len(results) = idx

\* C1: a probe all of whose attempts raise returns ("Retry Failed", None)
\* after exactly 5 driver.get calls, each followed by one second of sleep;
\* no other probe returns "Retry Failed".
C1_RetryExhaustion ==
    /\ attempt > 0 => attempt < 5 /\ navs = attempt /\ sleeps = attempt
    /\ ProbeReturned =>
          LET last == results[idx]
          IN  /\ sleeps = navs =>
                    /\ last["stock_status"] = "Retry Failed"
                    /\ last["product_page_url"] = None
                    /\ navs = 5
                    /\ sleeps = 5
              /\ last["stock_status"] = "Retry Failed" =>
                    /\ last["product_page_url"] = None
                    /\ navs = 5
                    /\ sleeps = 5

\* a row that has a search URL and whose five navigations all raised
C1_Witness ==
    /\ ProbeReturned
    /\ results[idx]["search_url"] # None
    /\ results[idx]["stock_status"] = "Retry Failed"
    /\ navs = 5
    /\ sleeps = 5

\* C2: the session is acquired at most once and no run ends with it open.
C2_SessionReleased ==
    /\ acquired <= 1
    /\ CheckerEnded => driver = "quit"

\* C4: whatever the probes return, results holds one checked row per input
\* row, in input order, with one of the four statuses; a probe step never
\* aborts the run; a finished run has gone through every row and written the
\* checked file; a started run ends, finished or cut by an unexpected error.
C4_EveryRowChecked ==
    /\ [](cpc \in {"loop", "done", "aborted"} =>
            /\ Len(results) = idx
            /\ idx <= Len(rawFile.rows)
            /\ \A i \in DOMAIN results :
                  /\ \A c \in DOMAIN rawFile.rows[i] : results[i][c] = rawFile.rows[i][c]
                  /\ results[i]["stock_status"] \in StockStatuses)
    /\ [](cpc = "done" =>
            /\ idx = Len(rawFile.rows)
            /\ checkedFile = [exists |-> TRUE, rows |-> results]
            /\ checkedWrites = 1)
    /\ [][cpc' = "aborted" => UNCHANGED <<idx, attempt, navs, sleeps, results>>]_vars
    /\ (cpc = "loop" ~> CheckerEnded)

\* a finished run over two rows, one of them Retry Failed
C4_Witness ==
    /\ cpc = "done"
    /\ Len(rawFile.rows) = 2
    /\ results[1]["stock_status"] = "Retry Failed"
    /\ results[2]["stock_status"] = "In Stock"
    /\ checkedFile.exists

\* C5: without carex_variants_raw.xlsx the Checker reports an error and
\* returns: no file read, no session, no navigation, no row, no file written.
C5_MissingInputNoEffects ==
    ~rawFile.exists =>
       /\ cpc \in {"idle", "failed"}
       /\ cpc = "failed" => \E m \in DOMAIN cmsgs : cmsgs[m].kind = "error"
       /\ reads = 0
       /\ driver = "none"
       /\ acquired = 0
       /\ navs = 0
       /\ results = <<>>
       /\ ~checkedFile.exists
       /\ checkedWrites = 0

C5_Witness == ~rawFile.exists /\ cpc = "failed" /\ Len(cmsgs) = 1

\* C9: a row without SKU and name is not navigated or retried, and its
\* status is "Unknown" with no product page URL.
C9_NoQueryRowUnknown ==
    /\ cpc = "loop" /\ df_input[idx + 1]["search_url"] = None => attempt = 0
    /\ \A i \in DOMAIN results :
          results[i]["search_url"] = None =>
             /\ results[i]["stock_status"] = "Unknown"
             /\ results[i]["product_page_url"] = None

====
